---- MODULE Spec2Model ----
(***************************************************************************)
(* State-machine model of escpos.py: POSPrinter (the resilient dispatch    *)
(* layer around do_safe/connect) and POSPrinterGraphics (the deferred      *)
(* command buffer).  The program is single threaded; its call stack is     *)
(* modelled explicitly as a sequence of frames, the last element being the *)
(* active frame.  The only nondeterminism is the caller's choice of the    *)
(* next call and whether a device call raises.                             *)
(***************************************************************************)
EXTENDS Integers, Sequences, FiniteSets, TLC

VARIABLES
    stack,             \* call stack of frames [fn, pc, a]; Len(stack) = depth
    exc,               \* exception in flight / seen by the caller: "none", "device", "ValueError"
    retv,              \* value returned by the last completed call
    call,              \* the caller's current (or last) top-level call
    printer,           \* POSPrinter.printer: "None" or "TMT20"
    usb_dev,           \* POSPrinter.usb_dev: "None" or "open"
    last_upside_down,  \* POSPrinter.last_upside_down
    sess,              \* device side of the session printer is bound to
    budget,            \* how many more device calls may raise
    stats,             \* counters of the current top-level call
    oplog,             \* device operations completed during the current top-level call
    gfx,               \* the POSPrinterGraphics object (or its absence)
    trace              \* whether stats and oplog record the whole call, or
                       \* oplog only the last device operation and stats nothing

vars == <<stack, exc, retv, call, printer, usb_dev, last_upside_down, sess,
          budget, stats, oplog, gfx, trace>>

----
(* Bounds *)

\* device failures over a whole run of the printer scenarios
MaxFail == 3
\* device failures over a whole run of the graphics scenarios
MaxFailG == 1
\* append calls on a POSPrinterGraphics between two clears of its buffer
MaxAppends == 2
\* bits of precision of the floating-point numbers
Precision == 17
\* the series print_chart is given: at most MaxSeriesLen samples in 0..MaxSample
MaxSeriesLen == 3
MaxSample == 3
\* the widest POSPrinterGraphics charts are drawn on, and the tallest chart
MaxQueueWidth == 8
MaxHeight == 2

----
(* Program constants *)

printer_width == 48
line_char == "#"
DefaultCutFeed == 2
DefaultFeedLines == 1

ESC == 27
GS == 29
LBRACE == 123
CHR1 == 49
CHR2 == 50
CHRb == 98

----
(* Helpers *)

RECURSIVE Rep(_, _)
\* symbol * n  (string repetition)
Rep(s, n) == IF n <= 0 THEN "" ELSE s \o Rep(s, n - 1)

RECURSIVE Reverse(_)
\* list.reverse()
Reverse(s) == IF s = <<>> THEN <<>> ELSE Reverse(Tail(s)) \o <<Head(s)>>

Frame(fn, pc, a) == [fn |-> fn, pc |-> pc, a |-> a]

Top == stack[Len(stack)]
Pop == SubSeq(stack, 1, Len(stack) - 1)
\* the active frame replaced by f
Repl(f) == [stack EXCEPT ![Len(stack)] = f]
\* the active frame moves to pc and calls f
CallFrom(pc, f) == Append(Repl([Top EXCEPT !.pc = pc]), f)

Idle == stack = <<>>
Running == stack # <<>> /\ exc = "none"
InConnect == \E i \in 1..Len(stack) : stack[i].fn = "connect"

\* Python truthiness of an optional string argument (None is "None")
Truthy(x) == x \notin {"None", ""}

----
(* Device primitives: the methods of self.printer that do_safe is handed *)

Primitives == {"cut", "text", "lf", "justify_left", "justify_center",
               "justify_right", "set_text_size"}
RawWriters == {"_set_upside_down", "_set_smooth"}
DeviceFuncs == Primitives \cup RawWriters

\* _set_upside_down: b'\x1B' + b'{1' if upside_down else b'{2'
UpsideDownBytes(upside_down) ==
    IF upside_down THEN <<ESC>> \o <<LBRACE, CHR1>> ELSE <<LBRACE, CHR2>>

\* _set_smooth: b'\x1D' + b'b' + b'\x01' if smooth else b'\x02'
SmoothBytes(smooth) ==
    IF smooth THEN <<GS>> \o <<CHRb>> \o <<1>> ELSE <<2>>

\* the bytes a raw writer hands to printer.device.write
RawBytes(func, args) ==
    IF func = "_set_upside_down" THEN UpsideDownBytes(args[1]) ELSE SmoothBytes(args[1])

\* the justification of the session after the device accepted func
Justified(func, current) ==
    CASE func = "justify_left" -> "left"
      [] func = "justify_center" -> "center"
      [] func = "justify_right" -> "right"
      [] OTHER -> current

OrientOn == <<ESC, LBRACE, CHR1>>
OrientOff == <<ESC, LBRACE, CHR2>>

\* one completed device operation, with what held when it completed
LogEntry(func, args) ==
    [op |-> func, args |-> args,
     bytes |-> IF func \in RawWriters THEN RawBytes(func, args) ELSE <<>>,
     lud |-> last_upside_down, oriented |-> sess.oriented, justify |-> sess.justify]

----
(* Values *)

None == [f |-> "None", n |-> 0]
\* what the n-th attempt of device function func returns
Result(func, n) == [f |-> func, n |-> n]

\* a session right after init(): not upside down, left-justified
FreshSession == [oriented |-> FALSE, justify |-> "left"]
\* connReturns counts the invocations of connect() that returned
ZeroStats == [sleeps |-> 0, connects |-> 0, attempts |-> 0, opFails |-> 0, connFails |-> 0,
              connReturns |-> 0]
\* no POSPrinterGraphics object yet.  nApp, calls, count, before, executed and raised
\* are history: commands and append calls since the buffer was last empty, how often
\* each command was executed before any flush raised, the buffer at
\* the start of the current flush, the commands the current flush completed, and
\* whether a flush of this object has raised.
NoGfx == [made |-> FALSE, width |-> 0, upside_down |-> FALSE, command_buffer |-> <<>>,
          nApp |-> 0, calls |-> 0, count |-> <<>>, before |-> <<>>, executed |-> <<>>,
          raised |-> FALSE]

Sides == {"left", "center", "right"}
BadSide == "diagonal"
Texts == {"a"}

\* the history of a do_safe call: "first" before its first attempt failed, then
\* "failed" and "slept", with the value of connReturns when the attempt failed
FirstTry == [status |-> "first", mark |-> 0]

DoSafeFrame(func, args) == Frame("do_safe", "try", <<func, args, FirstTry>>)

\* the counters after a step, when they are kept
Counted(st) == IF trace THEN st ELSE stats

\* the calls a client makes on a POSPrinter
PrinterCalls ==
    {Frame("cut", "call", <<DefaultCutFeed>>), Frame("feed", "call", <<DefaultFeedLines>>)}
    \cup {Frame("print", "call", <<t, j>>) : t \in Texts, j \in Sides \cup {"None", BadSide}}
    \cup {Frame("line", "call", <<s>>) : s \in {"None", "-"}}
    \cup {Frame("justify", "call", <<s>>) : s \in Sides \cup {BadSide}}
    \cup {Frame("set_text_size", "call", <<w, w>>) : w \in {0, 2}}
    \cup {Frame("set_upside_down", "call", <<b>>) : b \in BOOLEAN}
    \cup {Frame("set_smooth", "call", <<b>>) : b \in BOOLEAN}
    \cup {DoSafeFrame("cut", <<DefaultCutFeed>>), DoSafeFrame("text", <<"a">>)}

----
(* POSPrinter.__init__ : the fields, then do_safe(self.connect) *)

InitWith(b, t) ==
    /\ stack = <<DoSafeFrame("connect", <<>>)>>
    /\ exc = "none"
    /\ retv = None
    /\ call = Frame("__init__", "call", <<>>)
    /\ printer = "None"
    /\ usb_dev = "None"
    /\ last_upside_down = FALSE
    /\ sess = FreshSession
    /\ budget = b
    /\ stats = ZeroStats
    /\ oplog = <<>>
    /\ gfx = NoGfx
    /\ trace = t

Init == InitWith(MaxFail, TRUE)

\* the client calls a method of the POSPrinter
Invoke ==
    /\ Idle
    /\ \E c \in PrinterCalls :
         /\ stack' = <<c>>
         /\ call' = c
    /\ exc' = "none"
    /\ retv' = None
    /\ stats' = ZeroStats
    /\ oplog' = <<>>
    /\ UNCHANGED <<printer, usb_dev, last_upside_down, sess, budget, gfx, trace>>

----
(* do_safe *)

\* except Exception
CatchesValueErrorOnly(e) == e = "ValueError"
Catches(e) == e \in {"device", "ValueError"}

\* if func != self.connect
NeedsReconnectNever(func) == FALSE
NeedsReconnect(func) == func # "connect"

\* return func(*args, **kwargs): do_safe returns once the call returned
ReturnsNever(e) == FALSE
ReturnsAfterTry(e) == e = "none"

\* try: func(...) where func is a device function, and the device accepts it
DoSafeDeviceOk ==
    /\ Running /\ Top.fn = "do_safe" /\ Top.pc = "try"
    /\ Top.a[1] \in DeviceFuncs
    /\ LET func == Top.a[1]
           args == Top.a[2]
           e == LogEntry(func, args)
           n == IF InConnect \/ ~trace THEN stats.attempts ELSE stats.attempts + 1
       IN /\ oplog' = IF trace THEN Append(oplog, e) ELSE <<e>>
          /\ sess' = [sess EXCEPT !.oriented = @ \/ e.bytes = OrientOn,
                                   !.justify = Justified(func, @)]
          /\ last_upside_down' =
                IF func = "_set_upside_down" THEN args[1] ELSE last_upside_down
          /\ stats' = [stats EXCEPT !.attempts = n]
          /\ retv' = IF func \in Primitives THEN Result(func, n) ELSE None
          /\ stack' = Repl([Top EXCEPT !.pc = "wait"])
    /\ UNCHANGED <<exc, call, printer, usb_dev, budget, gfx, trace>>

\* try: func(...) where func is a device function, and the device call raises
DoSafeDeviceFail ==
    /\ Running /\ Top.fn = "do_safe" /\ Top.pc = "try"
    /\ Top.a[1] \in DeviceFuncs
    /\ budget > 0
    /\ budget' = budget - 1
    /\ exc' = "device"
    /\ stack' = Repl([Top EXCEPT !.pc = "wait"])
    /\ stats' = Counted(IF InConnect
                           THEN [stats EXCEPT !.connFails = @ + 1]
                           ELSE [stats EXCEPT !.opFails = @ + 1, !.attempts = @ + 1])
    /\ UNCHANGED <<retv, call, printer, usb_dev, last_upside_down, sess, oplog, gfx, trace>>

\* try: func(...) where func is a method of POSPrinter
DoSafeCallMethod ==
    /\ Running /\ Top.fn = "do_safe" /\ Top.pc = "try"
    /\ Top.a[1] \notin DeviceFuncs
    /\ stack' = CallFrom("wait", Frame(Top.a[1], "call", Top.a[2]))
    /\ stats' = Counted(IF Top.a[1] = "connect"
                           THEN [stats EXCEPT !.connects = @ + 1] ELSE stats)
    /\ UNCHANGED <<exc, retv, call, printer, usb_dev, last_upside_down, sess, budget,
                   oplog, gfx, trace>>

\* return func(...)
DoSafeReturn ==
    /\ stack # <<>> /\ Top.fn = "do_safe" /\ Top.pc = "wait"
    /\ ReturnsAfterTry(exc)
    /\ stack' = Pop
    /\ UNCHANGED <<exc, retv, call, printer, usb_dev, last_upside_down, sess, budget,
                   stats, oplog, gfx, trace>>

\* except Exception as e: print(traceback.format_exc())
DoSafeCatch ==
    /\ stack # <<>> /\ Top.fn = "do_safe" /\ Top.pc = "wait"
    /\ exc # "none" /\ Catches(exc)
    /\ exc' = "none"
    /\ stack' = Repl([Top EXCEPT !.pc = "sleep",
                                 !.a[3] = IF trace
                                             THEN [status |-> "failed",
                                                   mark |-> stats.connReturns]
                                             ELSE @])
    /\ UNCHANGED <<retv, call, printer, usb_dev, last_upside_down, sess, budget,
                   stats, oplog, gfx, trace>>

\* time.sleep(20)
DoSafeSleep ==
    /\ Running /\ Top.fn = "do_safe" /\ Top.pc = "sleep"
    /\ stats' = Counted([stats EXCEPT !.sleeps = @ + 1])
    /\ stack' = Repl([Top EXCEPT !.pc = "reconnect",
                                 !.a[3].status = IF trace THEN "slept" ELSE @])
    /\ UNCHANGED <<exc, retv, call, printer, usb_dev, last_upside_down, sess, budget,
                   oplog, gfx, trace>>

\* if func != self.connect: self.do_safe(self.connect)
DoSafeReconnect ==
    /\ Running /\ Top.fn = "do_safe" /\ Top.pc = "reconnect"
    /\ stack' = IF NeedsReconnect(Top.a[1])
                   THEN CallFrom("try", DoSafeFrame("connect", <<>>))
                   ELSE Repl([Top EXCEPT !.pc = "try"])
    /\ UNCHANGED <<exc, retv, call, printer, usb_dev, last_upside_down, sess, budget,
                   stats, oplog, gfx, trace>>

\* an exception leaves a frame that does not handle it
Unwind ==
    /\ stack # <<>> /\ exc # "none"
    /\ ~(Top.fn = "do_safe" /\ Top.pc = "wait" /\ Catches(exc))
    /\ Top.fn # "g_print"
    /\ stack' = Pop
    /\ UNCHANGED <<exc, retv, call, printer, usb_dev, last_upside_down, sess, budget,
                   stats, oplog, gfx, trace>>

\* a method of POSPrinter reaches its end and returns None
Return ==
    /\ Running /\ Top.fn # "do_safe" /\ Top.pc = "done"
    /\ stack' = Pop
    /\ retv' = None
    /\ stats' = Counted(IF Top.fn = "connect"
                           THEN [stats EXCEPT !.connReturns = @ + 1] ELSE stats)
    /\ UNCHANGED <<exc, call, printer, usb_dev, last_upside_down, sess, budget,
                   oplog, gfx, trace>>

----
(* connect *)

\* if self.last_upside_down
ReapplyNever(lud) == FALSE
ReapplyNeeded(lud) == lud

\* self.usb_dev = USBConnection.create(...)
ConnectCreateOk ==
    /\ Running /\ Top.fn = "connect" /\ Top.pc = "call"
    /\ usb_dev' = "open"
    /\ stack' = Repl([Top EXCEPT !.pc = "init"])
    /\ UNCHANGED <<exc, retv, call, printer, last_upside_down, sess, budget, stats,
                   oplog, gfx, trace>>

\* USBConnection.create raises
ConnectCreateFail ==
    /\ Running /\ Top.fn = "connect" /\ Top.pc = "call"
    /\ budget > 0
    /\ budget' = budget - 1
    /\ exc' = "device"
    /\ stats' = Counted([stats EXCEPT !.connFails = @ + 1])
    /\ UNCHANGED <<stack, retv, call, printer, usb_dev, last_upside_down, sess, oplog, gfx, trace>>

\* self.printer.__init__(self.usb_dev) or TMT20(self.usb_dev); self.printer.init()
ConnectInitOk ==
    /\ Running /\ Top.fn = "connect" /\ Top.pc = "init"
    /\ printer' = "TMT20"
    /\ sess' = FreshSession
    /\ stack' = Repl([Top EXCEPT !.pc = "reapply"])
    /\ UNCHANGED <<exc, retv, call, usb_dev, last_upside_down, budget, stats, oplog, gfx, trace>>

\* binding the printer to the new device, or its init(), raises
ConnectInitFail ==
    /\ Running /\ Top.fn = "connect" /\ Top.pc = "init"
    /\ budget > 0
    /\ budget' = budget - 1
    /\ exc' = "device"
    /\ \E bound \in BOOLEAN :
         /\ printer' = IF bound THEN "TMT20" ELSE printer
         /\ sess' = IF bound THEN FreshSession ELSE sess
    /\ stats' = Counted([stats EXCEPT !.connFails = @ + 1])
    /\ UNCHANGED <<stack, retv, call, usb_dev, last_upside_down, oplog, gfx, trace>>

\* if self.last_upside_down: self.do_safe(self.set_upside_down, self.last_upside_down)
ConnectReapply ==
    /\ Running /\ Top.fn = "connect" /\ Top.pc = "reapply"
    /\ stack' = IF ReapplyNeeded(last_upside_down)
                   THEN CallFrom("done", DoSafeFrame("set_upside_down", <<last_upside_down>>))
                   ELSE Repl([Top EXCEPT !.pc = "done"])
    /\ UNCHANGED <<exc, retv, call, printer, usb_dev, last_upside_down, sess, budget,
                   stats, oplog, gfx, trace>>

----
(* The operations of POSPrinter *)

\* the device function each one-line operation hands to do_safe
Wrapped(fn) ==
    CASE fn = "cut" -> "cut"
      [] fn = "feed" -> "lf"
      [] fn = "set_text_size" -> "set_text_size"
      [] fn = "set_upside_down" -> "_set_upside_down"
      [] fn = "set_smooth" -> "_set_smooth"

WrapperOp(fn) ==
    /\ Running /\ Top.fn = fn /\ Top.pc = "call"
    /\ stack' = CallFrom("done", DoSafeFrame(Wrapped(fn), Top.a))
    /\ UNCHANGED <<exc, retv, call, printer, usb_dev, last_upside_down, sess, budget,
                   stats, oplog, gfx, trace>>

\* self.do_safe(self.printer.cut, feed=feed)
Cut == WrapperOp("cut")
\* self.do_safe(self.printer.lf, lines)
Feed == WrapperOp("feed")
\* self.do_safe(self.printer.set_text_size, width, height)
SetTextSize == WrapperOp("set_text_size")
\* self.do_safe(self._set_upside_down, upside_down)
SetUpsideDown == WrapperOp("set_upside_down")
\* self.do_safe(self._set_smooth, smooth)
SetSmooth == WrapperOp("set_smooth")

\* print: if justify: self.justify(justify)
PrintPre ==
    /\ Running /\ Top.fn = "print" /\ Top.pc = "call"
    /\ stack' = IF Truthy(Top.a[2])
                   THEN CallFrom("text", Frame("justify", "call", <<Top.a[2]>>))
                   ELSE Repl([Top EXCEPT !.pc = "text"])
    /\ UNCHANGED <<exc, retv, call, printer, usb_dev, last_upside_down, sess, budget,
                   stats, oplog, gfx, trace>>

\* print: self.do_safe(self.printer.text, text)
PrintText ==
    /\ Running /\ Top.fn = "print" /\ Top.pc = "text"
    /\ stack' = CallFrom("post", DoSafeFrame("text", <<Top.a[1]>>))
    /\ UNCHANGED <<exc, retv, call, printer, usb_dev, last_upside_down, sess, budget,
                   stats, oplog, gfx, trace>>

\* print: if justify: self.justify("left")
PrintPost ==
    /\ Running /\ Top.fn = "print" /\ Top.pc = "post"
    /\ stack' = IF Truthy(Top.a[2])
                   THEN CallFrom("done", Frame("justify", "call", <<"left">>))
                   ELSE Repl([Top EXCEPT !.pc = "done"])
    /\ UNCHANGED <<exc, retv, call, printer, usb_dev, last_upside_down, sess, budget,
                   stats, oplog, gfx, trace>>

\* line: if not symbol: symbol = self.line_char; self.print(symbol*self.printer_width)
Line ==
    /\ Running /\ Top.fn = "line" /\ Top.pc = "call"
    /\ LET symbol == IF ~Truthy(Top.a[1]) THEN line_char ELSE Top.a[1]
       IN stack' = CallFrom("done",
                     Frame("print", "call", <<Rep(symbol, printer_width), "None">>))
    /\ UNCHANGED <<exc, retv, call, printer, usb_dev, last_upside_down, sess, budget,
                   stats, oplog, gfx, trace>>

\* the device function justify chooses for a side
JustifyFuncMirrored(side) ==
    CASE side = "left" -> "justify_right"
      [] side = "center" -> "justify_center"
      [] side = "right" -> "justify_left"
JustifyFunc(side) ==
    CASE side = "left" -> "justify_left"
      [] side = "center" -> "justify_center"
      [] side = "right" -> "justify_right"

\* justify with side in left / center / right
JustifyValid ==
    /\ Running /\ Top.fn = "justify" /\ Top.pc = "call"
    /\ Top.a[1] \in Sides
    /\ stack' = CallFrom("done", DoSafeFrame(JustifyFunc(Top.a[1]), <<>>))
    /\ UNCHANGED <<exc, retv, call, printer, usb_dev, last_upside_down, sess, budget,
                   stats, oplog, gfx, trace>>

\* the exception justify raises for any other side
InvalidSideAsDeviceError == "device"
InvalidSide == "ValueError"

\* justify: else: raise ValueError("Invalid side")
JustifyInvalid ==
    /\ Running /\ Top.fn = "justify" /\ Top.pc = "call"
    /\ Top.a[1] \notin Sides
    /\ exc' = InvalidSide
    /\ UNCHANGED <<stack, retv, call, printer, usb_dev, last_upside_down, sess, budget,
                   stats, oplog, gfx, trace>>

----
(* The machine: every step of the running call *)

Step ==
    \/ DoSafeDeviceOk \/ DoSafeDeviceFail \/ DoSafeCallMethod \/ DoSafeReturn
    \/ DoSafeCatch \/ DoSafeSleep \/ DoSafeReconnect \/ Unwind \/ Return
    \/ ConnectCreateOk \/ ConnectCreateFail \/ ConnectInitOk \/ ConnectInitFail
    \/ ConnectReapply

PrinterStep ==
    \/ Cut \/ Feed \/ SetTextSize \/ SetUpsideDown \/ SetSmooth
    \/ PrintPre \/ PrintText \/ PrintPost \/ Line \/ JustifyValid \/ JustifyInvalid

Next == Invoke \/ Step \/ PrinterStep

Spec == Init /\ [][Next]_vars

----
(* POSPrinterGraphics: the append methods *)

\* a buffered (command, args) pair; uid (the insertion number) and size (the size
\* argument of the text call that appended it) are history, not program state
Command(op, args, uid, size) == [op |-> op, args |-> args, uid |-> uid, size |-> size]

\* the (command, args) pairs, without their insertion numbers
Pairs(buf) == [i \in 1..Len(buf) |-> <<buf[i].op, buf[i].args>>]

\* command_buffer.append of each of cmds, numbering them from n + 1
RECURSIVE Numbered(_, _)
Numbered(cmds, n) ==
    IF cmds = <<>> THEN <<>>
    ELSE <<[Head(cmds) EXCEPT !.uid = n + 1]>> \o Numbered(Tail(cmds), n + 1)

\* what list.append does to the buffer
AppendAtFront(buf, cmds) == cmds \o buf
AppendAtEnd(buf, cmds) == buf \o cmds

\* set_text_size(width, height) of POSPrinterGraphics
GSetTextSizeCmd(w, h) == Command("set_text_size", <<w, h>>, 0, 0)

\* text(text, justify, size): the commands it appends, in order
TextCmds(upside_down, text, justify, size) ==
    (IF size # 0
       THEN IF upside_down THEN <<GSetTextSizeCmd(0, 0)>> ELSE <<GSetTextSizeCmd(size, size)>>
       ELSE <<>>)
    \o <<Command("print", <<text, justify>>, 0, size)>>
    \o (IF size # 0
          THEN IF upside_down THEN <<GSetTextSizeCmd(size, size)>> ELSE <<GSetTextSizeCmd(0, 0)>>
          ELSE <<>>)

\* an append call: cmds go to the end of the buffer, nothing else happens.
\* The numbering of the commands restarts when the buffer is empty.
Appending(name, args, cmds) ==
    /\ Idle /\ gfx.made
    /\ gfx.calls < MaxAppends
    /\ LET fresh == gfx.command_buffer = <<>>
           n == IF fresh THEN 0 ELSE gfx.nApp
       IN gfx' = [gfx EXCEPT !.command_buffer = AppendAtEnd(@, Numbered(cmds, n)),
                             !.nApp = n + Len(cmds),
                             !.calls = @ + 1,
                             !.count = (IF fresh THEN <<>> ELSE @)
                                       \o [i \in 1..Len(cmds) |-> 0],
                             !.before = <<>>,
                             !.executed = <<>>]
    /\ call' = Frame(name, "idle", args)
    /\ exc' = "none"
    /\ retv' = None
    /\ stats' = ZeroStats
    /\ oplog' = <<>>
    /\ UNCHANGED <<stack, printer, usb_dev, last_upside_down, sess, budget, trace>>

\* the (justify, size) arguments text is called with
GTextArgs == {<<"center", 2>>}

GText ==
    \E t \in Texts, js \in GTextArgs :
        LET j == js[1]
            size == js[2]
        IN Appending("g_text", <<t, j, size>>, TextCmds(gfx.upside_down, t, j, size))

GFeed == Appending("g_feed", <<DefaultFeedLines>>,
                   <<Command("feed", <<DefaultFeedLines>>, 0, 0)>>)

GLine == Appending("g_line", <<>>, <<Command("line", <<"None">>, 0, 0)>>)

GJustify ==
    \E side \in {BadSide} :
        Appending("g_justify", <<side>>, <<Command("justify", <<side>>, 0, 0)>>)

GCut == Appending("g_cut", <<>>, <<Command("cut", <<DefaultCutFeed>>, 0, 0)>>)

GSetTextSize ==
    \E w \in {2} :
        Appending("g_set_text_size", <<w, w>>, <<GSetTextSizeCmd(w, w)>>)

----
(* Python floats: binary floating point, round to nearest, ties to even.  A  *)
(* float is [m, e], the number m * 2^e, with m = 0 or 2^(Precision-1) <= m <     *)
(* 2^Precision.  Python's float has 53 bits of precision where this one has      *)
(* Precision; the samples are small natural numbers, so no value is negative.    *)

Pow2(k) == 2 ^ k

Zero == [m |-> 0, e |-> 0]

\* the number of bits of M > 0
BitLen(M) == CHOOSE b \in 1..30 : M < Pow2(b) /\ (b = 1 \/ M >= Pow2(b - 1))

\* M without its k low bits, rounded to nearest, ties to even
RoundEven(M, k) ==
    LET unit == Pow2(k)
        q == M \div unit
        r == M % unit
        half == unit \div 2
    IN IF r > half \/ (r = half /\ q % 2 = 1) THEN q + 1 ELSE q

\* the float nearest to M * 2^e
Normal(M, e) ==
    IF M = 0 THEN Zero
    ELSE LET k == BitLen(M) - Precision
         IN IF k <= 0 THEN [m |-> M * Pow2(-k), e |-> e + k]
            ELSE IF RoundEven(M, k) = Pow2(Precision)
                   THEN [m |-> Pow2(Precision - 1), e |-> e + k + 1]
                   ELSE [m |-> RoundEven(M, k), e |-> e + k]

\* M without its k low bits, the lowest bit kept set when a dropped bit was set
Jam(M, k) ==
    IF k > Precision + 3 THEN (IF M = 0 THEN 0 ELSE 1)
    ELSE LET q == M \div Pow2(k)
         IN IF M % Pow2(k) # 0 /\ q % 2 = 0 THEN q + 1 ELSE q

\* float(n) of a small natural number
FromInt(n) == Normal(n, 0)

\* x < y
FLess(x, y) ==
    IF y.m = 0 THEN FALSE
    ELSE IF x.m = 0 THEN TRUE
    ELSE x.e < y.e \/ (x.e = y.e /\ x.m < y.m)

\* x + y and x - y (for x >= y): the operand of lower exponent is aligned to
\* three bits below the other one
AddSub(x, y, sign) ==
    LET hi == IF x.e >= y.e THEN x ELSE y
        lo == IF x.e >= y.e THEN y ELSE x
        diff == hi.e - lo.e
        A == hi.m * 8
        B == IF diff <= 3 THEN lo.m * Pow2(3 - diff) ELSE Jam(lo.m, diff - 3)
    IN IF y.m = 0 THEN x
       ELSE IF x.m = 0 THEN y
       ELSE IF sign = 1 THEN Normal(A + B, hi.e - 3)
       ELSE Normal(IF x.e >= y.e THEN A - B ELSE B - A, hi.e - 3)

FAdd(x, y) == AddSub(x, y, 1)
FSub(x, y) == AddSub(x, y, -1)

\* half the number of quotient bits a division computes below the leading one
HalfBits == (Precision + 3) \div 2

\* x / y, y not zero: the quotient of the mantissas to 2 * HalfBits more bits, in
\* two steps of long division, the lowest bit set when a remainder is left
FDiv(x, y) ==
    LET d == y.m
        q1 == x.m \div d
        r1 == x.m % d
        q2 == (r1 * Pow2(HalfBits)) \div d
        r2 == (r1 * Pow2(HalfBits)) % d
        q3 == (r2 * Pow2(HalfBits)) \div d
        r3 == (r2 * Pow2(HalfBits)) % d
        Q == (q1 * Pow2(HalfBits) + q2) * Pow2(HalfBits) + q3
    IN IF x.m = 0 THEN Zero
       ELSE Normal(IF r3 # 0 /\ Q % 2 = 0 THEN Q + 1 ELSE Q, x.e - y.e - 2 * HalfBits)

\* n * x of a small natural number n
FMulInt(n, x) == Normal(n * x.m, x.e)

\* math.floor(x), math.ceil(x), int(x)
Floor(x) == IF x.e >= 0 THEN x.m * Pow2(x.e)
            ELSE IF -x.e >= Precision THEN 0 ELSE x.m \div Pow2(-x.e)
Ceil(x) == IF x.e >= 0 THEN x.m * Pow2(x.e)
           ELSE IF -x.e >= Precision THEN (IF x.m = 0 THEN 0 ELSE 1)
           ELSE IF x.m % Pow2(-x.e) = 0 THEN Floor(x) ELSE Floor(x) + 1

\* max(values) of a non-empty list of floats
FMax(fs) == fs[CHOOSE i \in 1..Len(fs) : \A j \in 1..Len(fs) : ~FLess(fs[i], fs[j])]

\* min(values) of a non-empty list of floats
FMin(fs) == fs[CHOOSE i \in 1..Len(fs) : \A j \in 1..Len(fs) : ~FLess(fs[j], fs[i])]

----
(* print_chart *)

Max(S) == CHOOSE x \in S : \A y \in S : y <= x
Min(S) == CHOOSE x \in S : \A y \in S : x <= y
Range(f) == {f[i] : i \in DOMAIN f}

\* len(values) // width
Stride(n, width) == n \div width

\* how many values range(0, n, stride) has
RangeLen(n, stride) == (n + stride - 1) \div stride

\* len(values) >= width: [values[i] for i in range(0, len(values), len(values) // width)]
\* The values stay the integers they are.
Decimate(values, width) ==
    LET stride == Stride(Len(values), width)
    IN [k \in 1..RangeLen(Len(values), stride) |-> values[(k - 1) * stride + 1]]

\* else: for i in range(width): index = i * (len(values) - 1) / (width - 1);
\* a = floor(index); b = ceil(index); weight = index - a;
\* values[a] * (1 - weight) + values[b] * weight
InterpolateAt(values, width, i) ==
    LET index == FDiv(FromInt(i * (Len(values) - 1)), FromInt(width - 1))
        a == Floor(index)
        b == Ceil(index)
        weight == FSub(index, FromInt(a))
    IN FAdd(FMulInt(values[a + 1], FSub(FromInt(1), weight)),
            FMulInt(values[b + 1], weight))

Interpolate(values, width) ==
    [k \in 1..width |-> InterpolateAt(values, width, k - 1)]

\* interpolated_values, with whether they are floats
Resample(values, width) ==
    IF Len(values) >= width
      THEN [float |-> FALSE, vals |-> Decimate(values, width)]
      ELSE [float |-> TRUE, vals |-> Interpolate(values, width)]

\* the resampled values as floats, as the arithmetic on them sees them
AsFloats(rs) ==
    IF rs.float THEN rs.vals ELSE [k \in 1..Len(rs.vals) |-> FromInt(rs.vals[k])]

\* range_value = max_value - min_value
RangeValue(rs) == FSub(FMax(AsFloats(rs)), FMin(AsFloats(rs)))

\* int((value - min_value) / range_value * (height)), range_value not zero
Buckets(rs, height) ==
    LET fs == AsFloats(rs)
        min_value == FMin(fs)
    IN [k \in 1..Len(fs) |->
          Floor(FMulInt(height, FDiv(FSub(fs[k], min_value), RangeValue(rs))))]

RECURSIVE ChartRow(_, _, _, _)
\* chart_str for row y, from column x on
ChartRow(chart, width, y, x) ==
    IF x > width THEN ""
    ELSE (IF chart[x] = y THEN "*" ELSE " ") \o ChartRow(chart, width, y, x + 1)

\* the rows y = height .. 0, without the row y = 1
RECURSIVE ChartLines(_, _, _)
ChartLines(chart, width, y) ==
    IF y < 0 THEN <<>>
    ELSE (IF y # 1 THEN <<ChartRow(chart, width, y, 1)>> ELSE <<>>)
         \o ChartLines(chart, width, y - 1)

Border(width) == "+" \o Rep("-", width) \o "+"

\* the texts print_chart hands to self.text for its chart_lines, in order
FramedLines(rows, width) ==
    <<Border(width)>> \o [k \in 1..Len(rows) |-> "|" \o rows[k] \o "|"]
    \o <<Border(width)>>

\* the texts of a whole print_chart call
ChartTexts(values, width, height) ==
    LET rs == Resample(values, width)
        chart == Buckets(rs, height)
        rows == ChartLines(chart, width, height)
    IN FramedLines(rows, width)

\* self.text(t) for each of texts
RECURSIVE TextsCmds(_, _)
TextsCmds(upside_down, texts) ==
    IF texts = <<>> THEN <<>>
    ELSE TextCmds(upside_down, Head(texts), "None", 0) \o TextsCmds(upside_down, Tail(texts))

ChartSeries == {<<0, 2>>, <<1, 1>>}
ChartHeights == {1}

GWidths == {5}

\* print_chart(values, height) on a queue of width w: whether it raises, and the
\* texts it appends otherwise
Charts ==
    [w \in GWidths, values \in ChartSeries, height \in ChartHeights |->
        LET rs == Resample(values, w - 2)
        IN IF RangeValue(rs) = Zero THEN [raises |-> TRUE, texts |-> <<>>]
           ELSE [raises |-> FALSE, texts |-> ChartTexts(values, w - 2, height)]]

GPrintChart ==
    \E values \in ChartSeries, height \in ChartHeights :
        /\ Idle /\ gfx.made
        /\ ~Charts[gfx.width, values, height].raises
        /\ Appending("g_print_chart", <<values, height>>,
                     TextsCmds(gfx.upside_down, Charts[gfx.width, values, height].texts))

\* max_value == min_value: the division by range_value raises ZeroDivisionError
GPrintChartRaise ==
    \E values \in ChartSeries, height \in ChartHeights :
        /\ Idle /\ gfx.made
        /\ Charts[gfx.width, values, height].raises
        /\ call' = Frame("g_print_chart", "idle", <<values, height>>)
        /\ exc' = "ZeroDivisionError"
        /\ retv' = None
        /\ stats' = ZeroStats
        /\ oplog' = <<>>
        /\ gfx' = [gfx EXCEPT !.before = <<>>, !.executed = <<>>]
        /\ UNCHANGED <<stack, printer, usb_dev, last_upside_down, sess, budget, trace>>

----
(* print_table *)

Digit(d) == CASE d = 0 -> "0" [] d = 1 -> "1" [] d = 2 -> "2" [] d = 3 -> "3"
              [] d = 4 -> "4" [] d = 5 -> "5" [] d = 6 -> "6" [] d = 7 -> "7"
              [] d = 8 -> "8" [] d = 9 -> "9"

RECURSIVE Str(_)
\* str(n) of a natural number
Str(n) == IF n < 10 THEN Digit(n) ELSE Str(n \div 10) \o Digit(n % 10)

\* the values of a table: a natural number or a string
Num(n) == [num |-> TRUE, n |-> n, s |-> ""]
Text(s) == [num |-> FALSE, n |-> 0, s |-> s]

\* str(value)
StrOf(value) == IF value.num THEN Str(value.n) ELSE value.s

\* f"{value:>{w}}" with a negative w: for a number "-" reads as the sign option and
\* the field width is -w; for a string the sign option raises ValueError
FormatRaises(value, w) == ~value.num /\ w < 0

\* f"{value:>{w}}" when it does not raise
RightAlign(value, w) ==
    LET field == IF w < 0 THEN -w ELSE w
    IN Rep(" ", field - Len(StrOf(value))) \o StrOf(value)

\* self.width-lable_len-2-(2*padding)
FieldWidth(key, width, padding) == width - Len(key) - 2 - (2 * padding)

\* " " * padding + f"{key}: {value:>{self.width-lable_len-2-(2*padding)}}"
TableLine(key, value, width, padding) ==
    Rep(" ", padding) \o key \o ": " \o RightAlign(value, FieldWidth(key, width, padding))

TableTexts(data, width, padding) ==
    [k \in 1..Len(data) |-> TableLine(data[k][1], data[k][2], width, padding)]

TableData == {<< <<"AB", Num(12)>>, <<"C", Num(3)>> >>}
Paddings == {0}

\* print_table(data, padding) on a queue of width w: whether it raises, and the
\* texts it appends otherwise
Tables ==
    [w \in GWidths, data \in TableData, padding \in Paddings |->
        IF \E k \in 1..Len(data) :
              FormatRaises(data[k][2], FieldWidth(data[k][1], w, padding))
          THEN [raises |-> TRUE, texts |-> <<>>]
          ELSE [raises |-> FALSE, texts |-> TableTexts(data, w, padding)]]

GPrintTable ==
    \E data \in TableData, padding \in Paddings :
        /\ Idle /\ gfx.made
        /\ ~Tables[gfx.width, data, padding].raises
        /\ Appending("g_print_table", <<data, padding>>,
                     TextsCmds(gfx.upside_down, Tables[gfx.width, data, padding].texts))

----
(* POSPrinterGraphics: construction and flush *)

\* the client constructs the POSPrinterGraphics of this run, or calls print /
\* print_cut on it
GInvoke ==
    /\ Idle
    /\ \/ \E w \in GWidths, ud \in BOOLEAN :
            /\ ~gfx.made
            /\ stack' = <<Frame("g_init", "call", <<w, ud>>)>>
            /\ call' = Frame("g_init", "call", <<w, ud>>)
       \/ \E fn \in {"g_print", "g_print_cut"} :
            /\ gfx.made
            /\ stack' = <<Frame(fn, "call", <<0>>)>>
            /\ call' = Frame(fn, "call", <<0>>)
    /\ exc' = "none"
    /\ retv' = None
    /\ stats' = ZeroStats
    /\ oplog' = <<>>
    /\ gfx' = [gfx EXCEPT !.before = <<>>, !.executed = <<>>]
    /\ UNCHANGED <<printer, usb_dev, last_upside_down, sess, budget, trace>>

\* __init__: self.width = width; self.upside_down = upside_down;
\* self.printer.set_upside_down(upside_down)
GInitSetUpsideDown ==
    /\ Running /\ Top.fn = "g_init" /\ Top.pc = "call"
    /\ gfx' = [NoGfx EXCEPT !.width = Top.a[1], !.upside_down = Top.a[2]]
    /\ stack' = CallFrom("buffer", Frame("set_upside_down", "call", <<Top.a[2]>>))
    /\ UNCHANGED <<exc, retv, call, printer, usb_dev, last_upside_down, sess, budget,
                   stats, oplog, trace>>

\* __init__: self.command_buffer = []
GInitBuffer ==
    /\ Running /\ Top.fn = "g_init" /\ Top.pc = "buffer"
    /\ gfx' = [gfx EXCEPT !.made = TRUE, !.command_buffer = <<>>]
    /\ stack' = Repl([Top EXCEPT !.pc = "done"])
    /\ UNCHANGED <<exc, retv, call, printer, usb_dev, last_upside_down, sess, budget,
                   stats, oplog, trace>>

\* if self.upside_down: self.command_buffer.reverse()
FlushOrderKept(upside_down, buf) == buf
FlushOrder(upside_down, buf) == IF upside_down THEN Reverse(buf) ELSE buf

\* self.command_buffer.clear()
KeepBuffer(buf) == buf
ClearBuffer(buf) == <<>>

GPrintReverse ==
    /\ Running /\ Top.fn = "g_print" /\ Top.pc = "call"
    /\ gfx' = [gfx EXCEPT !.command_buffer = FlushOrder(gfx.upside_down, @),
                          !.before = gfx.command_buffer,
                          !.executed = <<>>]
    /\ stack' = Repl([Top EXCEPT !.pc = "loop", !.a = <<1>>])
    /\ UNCHANGED <<exc, retv, call, printer, usb_dev, last_upside_down, sess, budget,
                   stats, oplog, trace>>

\* for command, args in self.command_buffer: command(*args)
GPrintCommand ==
    /\ Running /\ Top.fn = "g_print" /\ Top.pc = "loop"
    /\ Top.a[1] <= Len(gfx.command_buffer)
    /\ LET c == gfx.command_buffer[Top.a[1]]
       IN stack' = CallFrom("next", Frame(c.op, "call", c.args))
    /\ UNCHANGED <<exc, retv, call, printer, usb_dev, last_upside_down, sess, budget,
                   stats, oplog, gfx, trace>>

\* command(*args) returned: on to the next element of the list
GPrintNext ==
    /\ Running /\ Top.fn = "g_print" /\ Top.pc = "next"
    /\ LET c == gfx.command_buffer[Top.a[1]]
       IN gfx' = [gfx EXCEPT !.executed = Append(@, c),
                             !.count[c.uid] = IF gfx.raised THEN @ ELSE @ + 1]
    /\ stack' = Repl([Top EXCEPT !.pc = "loop", !.a = <<Top.a[1] + 1>>])
    /\ UNCHANGED <<exc, retv, call, printer, usb_dev, last_upside_down, sess, budget,
                   stats, oplog, trace>>

\* the loop is over: self.command_buffer.clear()
GPrintClear ==
    /\ Running /\ Top.fn = "g_print" /\ Top.pc = "loop"
    /\ Top.a[1] > Len(gfx.command_buffer)
    /\ gfx' = [gfx EXCEPT !.command_buffer = ClearBuffer(@),
                          !.calls = IF ClearBuffer(gfx.command_buffer) = <<>> THEN 0 ELSE @]
    /\ stack' = Repl([Top EXCEPT !.pc = "done"])
    /\ UNCHANGED <<exc, retv, call, printer, usb_dev, last_upside_down, sess, budget,
                   stats, oplog, trace>>

\* an exception leaves print(): the list stays as it is
GPrintRaised ==
    /\ stack # <<>> /\ exc # "none" /\ Top.fn = "g_print"
    /\ gfx' = [gfx EXCEPT !.raised = TRUE]
    /\ stack' = Pop
    /\ UNCHANGED <<exc, retv, call, printer, usb_dev, last_upside_down, sess, budget,
                   stats, oplog, trace>>

\* print_cut: self.print()
GPrintCutPrint ==
    /\ Running /\ Top.fn = "g_print_cut" /\ Top.pc = "call"
    /\ stack' = CallFrom("cut", Frame("g_print", "call", <<0>>))
    /\ UNCHANGED <<exc, retv, call, printer, usb_dev, last_upside_down, sess, budget,
                   stats, oplog, gfx, trace>>

\* print_cut: self.printer.cut()
GPrintCutCut ==
    /\ Running /\ Top.fn = "g_print_cut" /\ Top.pc = "cut"
    /\ stack' = CallFrom("done", Frame("cut", "call", <<DefaultCutFeed>>))
    /\ UNCHANGED <<exc, retv, call, printer, usb_dev, last_upside_down, sess, budget,
                   stats, oplog, gfx, trace>>

GraphicsStep ==
    \/ GInitSetUpsideDown \/ GInitBuffer
    \/ GPrintReverse \/ GPrintCommand \/ GPrintNext \/ GPrintClear \/ GPrintRaised
    \/ GPrintCutPrint \/ GPrintCutCut

GAppend ==
    \/ GText \/ GFeed \/ GLine \/ GJustify \/ GCut \/ GSetTextSize
    \/ GPrintChart \/ GPrintChartRaise \/ GPrintTable

InitG == InitWith(MaxFailG, FALSE)

NextG == GInvoke \/ GAppend \/ GraphicsStep \/ Step \/ PrinterStep

SpecG == InitG /\ [][NextG]_vars

\* the graphics object with the device operations of each call recorded
InitReplay == InitWith(MaxFailG, TRUE)

\* the append calls of the replayed flushes
GAppendReplay == GText \/ GFeed \/ GLine \/ GJustify

NextReplay == GInvoke \/ GAppendReplay \/ GraphicsStep \/ Step \/ PrinterStep

SpecReplay == InitReplay /\ [][NextReplay]_vars

----
(* print_chart and print_table statement by statement, on a POSPrinterGraphics   *)
(* that was just constructed.  The locals of the call live in its frame.         *)

RECURSIVE SeriesOfLen(_)
SeriesOfLen(n) ==
    IF n = 0 THEN {<<>>}
    ELSE {Append(values, v) : values \in SeriesOfLen(n - 1), v \in 0..MaxSample}

AllSeries == UNION {SeriesOfLen(n) : n \in 1..MaxSeriesLen}
QueueWidths == 3..MaxQueueWidth

RenderKeys == {"A", "ABCDEFG"}
RenderValues == {Num(1), Num(12), Text("x")}
RenderPairs == {<<k, v>> : k \in RenderKeys, v \in RenderValues}
RenderData == {<<p>> : p \in RenderPairs} \cup {<<p, q>> : p \in RenderPairs, q \in RenderPairs}
RenderPaddings == {0, 1}

ChartCalls ==
    {Frame("g_print_chart", "call", <<values, height>>) :
        values \in AllSeries, height \in 1..MaxHeight}
TableCalls ==
    {Frame("g_print_table", "call", <<data, padding, 1>>) :
        data \in RenderData, padding \in RenderPaddings}

InitRender ==
    /\ \E w \in QueueWidths \cup {printer_width}, upside_down \in BOOLEAN,
          c \in ChartCalls \cup TableCalls :
         /\ c \in ChartCalls => w \in QueueWidths
         /\ stack = <<c>>
         /\ call = c
         /\ gfx = [NoGfx EXCEPT !.made = TRUE, !.width = w, !.upside_down = upside_down]
         /\ last_upside_down = upside_down
         /\ sess = [FreshSession EXCEPT !.oriented = upside_down]
    /\ exc = "none"
    /\ retv = None
    /\ printer = "TMT20"
    /\ usb_dev = "open"
    /\ budget = 0
    /\ stats = ZeroStats
    /\ oplog = <<>>
    /\ trace = FALSE

\* self.text(t) for each of texts, inside a running call
TextEach(texts) ==
    LET cmds == TextsCmds(gfx.upside_down, texts)
    IN gfx' = [gfx EXCEPT !.command_buffer = AppendAtEnd(@, Numbered(cmds, gfx.nApp)),
                          !.nApp = @ + Len(cmds),
                          !.count = @ \o [i \in 1..Len(cmds) |-> 0]]

\* width = self.width - 2; interpolated_values = ...
PrintChartResample ==
    /\ Running /\ Top.fn = "g_print_chart" /\ Top.pc = "call"
    /\ stack' = Repl([Top EXCEPT !.pc = "normalise",
                                 !.a = <<Top.a[1], Top.a[2],
                                         Resample(Top.a[1], gfx.width - 2)>>])
    /\ UNCHANGED <<exc, retv, call, printer, usb_dev, last_upside_down, sess, budget,
                   stats, oplog, gfx, trace>>

\* max_value, min_value, range_value; chart.append(int(...)) for each value
PrintChartNormalise ==
    /\ Running /\ Top.fn = "g_print_chart" /\ Top.pc = "normalise"
    /\ RangeValue(Top.a[3]) # Zero
    /\ stack' = Repl([Top EXCEPT !.pc = "compile",
                                 !.a = Append(Top.a, Buckets(Top.a[3], Top.a[2]))])
    /\ UNCHANGED <<exc, retv, call, printer, usb_dev, last_upside_down, sess, budget,
                   stats, oplog, gfx, trace>>

\* range_value is zero: (value - min_value) / range_value raises
PrintChartDivideByZero ==
    /\ Running /\ Top.fn = "g_print_chart" /\ Top.pc = "normalise"
    /\ RangeValue(Top.a[3]) = Zero
    /\ exc' = "ZeroDivisionError"
    /\ UNCHANGED <<stack, retv, call, printer, usb_dev, last_upside_down, sess, budget,
                   stats, oplog, gfx, trace>>

\* chart_lines
PrintChartCompile ==
    /\ Running /\ Top.fn = "g_print_chart" /\ Top.pc = "compile"
    /\ stack' = Repl([Top EXCEPT !.pc = "text",
                                 !.a = Append(Top.a,
                                          ChartLines(Top.a[4], gfx.width - 2, Top.a[2]))])
    /\ UNCHANGED <<exc, retv, call, printer, usb_dev, last_upside_down, sess, budget,
                   stats, oplog, gfx, trace>>

\* self.text(border); self.text("|" + line + "|") for each line; self.text(border)
PrintChartText ==
    /\ Running /\ Top.fn = "g_print_chart" /\ Top.pc = "text"
    /\ TextEach(FramedLines(Top.a[5], gfx.width - 2))
    /\ stack' = Repl([Top EXCEPT !.pc = "done"])
    /\ UNCHANGED <<exc, retv, call, printer, usb_dev, last_upside_down, sess, budget,
                   stats, oplog, trace>>

\* for key, value in data: self.text(...) for the pair the loop is at
PrintTableRow ==
    /\ Running /\ Top.fn = "g_print_table" /\ Top.pc = "call"
    /\ Top.a[3] <= Len(Top.a[1])
    /\ LET pair == Top.a[1][Top.a[3]]
           padding == Top.a[2]
       IN /\ ~FormatRaises(pair[2], FieldWidth(pair[1], gfx.width, padding))
          /\ TextEach(<<TableLine(pair[1], pair[2], gfx.width, padding)>>)
    /\ stack' = Repl([Top EXCEPT !.a[3] = @ + 1])
    /\ UNCHANGED <<exc, retv, call, printer, usb_dev, last_upside_down, sess, budget,
                   stats, oplog, trace>>

\* the f-string of the pair the loop is at raises
PrintTableRaise ==
    /\ Running /\ Top.fn = "g_print_table" /\ Top.pc = "call"
    /\ Top.a[3] <= Len(Top.a[1])
    /\ LET pair == Top.a[1][Top.a[3]]
       IN FormatRaises(pair[2], FieldWidth(pair[1], gfx.width, Top.a[2]))
    /\ exc' = "ValueError"
    /\ UNCHANGED <<stack, retv, call, printer, usb_dev, last_upside_down, sess, budget,
                   stats, oplog, gfx, trace>>

\* the loop over data is over
PrintTableEnd ==
    /\ Running /\ Top.fn = "g_print_table" /\ Top.pc = "call"
    /\ Top.a[3] > Len(Top.a[1])
    /\ stack' = Repl([Top EXCEPT !.pc = "done"])
    /\ UNCHANGED <<exc, retv, call, printer, usb_dev, last_upside_down, sess, budget,
                   stats, oplog, gfx, trace>>

NextRender ==
    \/ PrintChartResample \/ PrintChartNormalise \/ PrintChartDivideByZero
    \/ PrintChartCompile \/ PrintChartText
    \/ PrintTableRow \/ PrintTableRaise \/ PrintTableEnd
    \/ Return \/ Unwind

SpecRender == InitRender /\ [][NextRender]_vars

\* the program keeps running while a call is active; the client may stop calling
FairSpec == Spec /\ WF_vars(Step \/ PrinterStep)

----
(* Properties of the resilient dispatch layer *)

LastOp == oplog[Len(oplog)]

\* C1: no device exception ever reaches the caller of a POSPrinter operation: the
\* call is still running or it has ended without a device error.
C1_NoDeviceErrorReachesCaller == ~(Idle /\ exc = "device")

C1_Witness ==
    /\ Idle /\ exc = "none" /\ call.fn = "print"
    /\ stats.opFails >= 1 /\ stats.connFails >= 1

\* C2: when the device fails only finitely often, every call eventually returns,
\* and a do_safe call returns only after an attempt of its operation completed:
\* the constructor returns with a connected printer, do_safe(op) returns the
\* result of the last attempt, which is the last device operation completed.
C2_EventuallySucceeds ==
    /\ [](~Idle => <>Idle)
    /\ [](Idle /\ call.fn = "__init__" => printer = "TMT20" /\ usb_dev = "open")
    /\ [](Idle /\ call.fn = "do_safe" =>
            /\ exc = "none"
            /\ oplog # <<>>
            /\ LastOp.op = call.a[1]
            /\ retv = Result(call.a[1], stats.attempts))

C2_Witness ==
    /\ Idle /\ exc = "none" /\ call.fn = "do_safe"
    /\ stats.opFails >= 1 /\ stats.connFails >= 1

\* C3: do_safe on a device operation that fails k times and then succeeds, every
\* reconnect succeeding at once, sleeps k times, calls connect k times, attempts
\* the operation k + 1 times and returns the result of attempt k + 1.
C3_ExactCycles ==
    (Idle /\ call.fn = "do_safe" /\ stats.connFails = 0) =>
        /\ exc = "none"
        /\ stats.sleeps = stats.opFails
        /\ stats.connects = stats.opFails
        /\ stats.attempts = stats.opFails + 1
        /\ retv = Result(call.a[1], stats.opFails + 1)

C3_Witness ==
    /\ Idle /\ call.fn = "do_safe" /\ stats.connFails = 0
    /\ stats.opFails = 2 /\ stats.sleeps = 2

\* C4: an operation other than the orientation write completes on a session
\* while last_upside_down is true only if ESC { 1 was written to that session.
C4_OrientationReapplied ==
    \A i \in 1..Len(oplog) :
        (oplog[i].lud /\ oplog[i].op # "_set_upside_down") => oplog[i].oriented

C4_Witness ==
    /\ Idle /\ oplog # <<>>
    /\ LastOp.op = "text" /\ LastOp.lud /\ LastOp.oriented
    /\ stats.opFails >= 1 /\ stats.connFails >= 1

\* C5: set_upside_down(b) writes ESC { 1 for b true and ESC { 2 for b false, and
\* last_upside_down equals b once it returned.
C5_OrientationBytes ==
    /\ \A i \in 1..Len(oplog) :
          oplog[i].op = "_set_upside_down" =>
              oplog[i].bytes = IF oplog[i].args[1] THEN OrientOn ELSE OrientOff
    /\ (Idle /\ call.fn = "set_upside_down" /\ exc = "none") =>
          last_upside_down = call.a[1]

----
(* Properties of the command buffer *)

Uids(buf) == [i \in 1..Len(buf) |-> buf[i].uid]
IsPrefix(s, t) == Len(s) <= Len(t) /\ SubSeq(t, 1, Len(s)) = s

\* the insertion numbers of buf in insertion order
InsertionOrder(buf) == SortSeq(Uids(buf), LAMBDA x, y : x < y)

\* the order the claim gives to a flush of the buffer it started with
ClaimedOrder ==
    IF gfx.upside_down THEN Reverse(InsertionOrder(gfx.before))
                       ELSE InsertionOrder(gfx.before)

AppendFns == {"g_text", "g_feed", "g_line", "g_justify", "g_cut", "g_set_text_size",
              "g_print_chart", "g_print_table"}

FlushReturned == Idle /\ call.fn = "g_print" /\ exc = "none"

\* C6: print() executes the buffered commands in reverse insertion order when
\* upside_down, in insertion order otherwise: what a flush has executed so far is
\* the beginning of that order, and all of it once the flush returned.
C6_FlushOrder ==
    /\ IsPrefix(Uids(gfx.executed), ClaimedOrder)
    /\ FlushReturned => Uids(gfx.executed) = ClaimedOrder

IsSize(c, s) == c.op = "set_text_size" /\ c.args = <<s, s>>

\* C7: a text appended with a size s is executed right after set_text_size(s, s)
\* and right before set_text_size(0, 0).
C7_SizeBracket ==
    \A i \in 1..Len(gfx.executed) :
        (gfx.executed[i].op = "print" /\ gfx.executed[i].size # 0) =>
            /\ i > 1 /\ IsSize(gfx.executed[i - 1], gfx.executed[i].size)
            /\ i < Len(gfx.executed) => IsSize(gfx.executed[i + 1], 0)
            /\ Idle => i < Len(gfx.executed)

\* C8: when print() ends, by returning or raising, either every buffered command
\* was executed and the buffer is empty, or none was and the buffer is as before.
C8_AllOrNothing ==
    (Idle /\ call.fn = "g_print") =>
        \/ /\ Len(gfx.executed) = Len(gfx.before)
           /\ gfx.command_buffer = <<>>
        \/ /\ gfx.executed = <<>>
           /\ Uids(gfx.command_buffer) = Uids(gfx.before)

\* C9: an append call returns at once having issued no device operation, leaves
\* the printer's state and the buffered commands as they were, and only adds to
\* the end of the buffer; no device operation happens during an append call.
C9_AppendNoSideEffects ==
    /\ [][(Idle /\ call'.fn \in AppendFns) =>
            /\ Idle'
            /\ oplog' = <<>> /\ stats' = ZeroStats
            /\ last_upside_down' = last_upside_down /\ sess' = sess
            /\ printer' = printer /\ usb_dev' = usb_dev /\ budget' = budget
            /\ IsPrefix(Uids(gfx.command_buffer), Uids(gfx'.command_buffer))
            /\ \A i \in 1..Len(gfx.command_buffer) :
                  Pairs(gfx'.command_buffer)[i] = Pairs(gfx.command_buffer)[i]]_vars
    /\ [](call.fn \in AppendFns => Idle /\ oplog = <<>>)

C9_Witness ==
    /\ Idle /\ exc = "none" /\ call.fn = "g_print_chart"
    /\ Len(gfx.command_buffer) > 3 /\ last_upside_down

\* C10: when print() returns the buffer is empty, a print() of an empty buffer
\* issues no device operation, and as long as no flush has raised every command
\* appended is executed by exactly one flush, the first one after its append.
C10_ClearedAfterFlush ==
    /\ FlushReturned => gfx.command_buffer = <<>>
    /\ (FlushReturned /\ gfx.before = <<>>) => (oplog = <<>> /\ gfx.executed = <<>>)
    /\ ~gfx.raised => \A u \in 1..Len(gfx.count) : gfx.count[u] <= 1
    /\ (Idle /\ ~gfx.raised) =>
          \A u \in 1..Len(gfx.count) :
              gfx.count[u] = IF \E i \in 1..Len(gfx.command_buffer) :
                                    gfx.command_buffer[i].uid = u
                             THEN 0 ELSE 1

C10_Witness ==
    /\ FlushReturned /\ ~gfx.raised
    /\ Len(gfx.count) >= 2 /\ \A u \in 1..Len(gfx.count) : gfx.count[u] = 1
    /\ budget < MaxFailG

----
(* Properties of invalid arguments *)

BadJustifyCall(c) == c.fn = "justify" /\ c.a[1] \notin Sides

\* C11: justify(side) with a side other than left / center / right raises ValueError
\* to the caller at once: no device operation, no sleep, no reconnect and no retry
\* happen during the call, no do_safe catches the error, and the printer's state
\* (printer, usb_dev, last_upside_down, the session) stays as it was.
C11_InvalidSideRaises ==
    /\ [](BadJustifyCall(call) =>
            /\ oplog = <<>> /\ stats = ZeroStats
            /\ Len(stack) <= 1
            /\ Idle => exc = "ValueError")
    /\ [][BadJustifyCall(call') =>
            /\ printer' = printer /\ usb_dev' = usb_dev
            /\ last_upside_down' = last_upside_down /\ sess' = sess
            /\ budget' = budget]_vars
    /\ [][(exc = "ValueError" /\ ~Idle) => exc' = "ValueError"]_vars

C11_Witness ==
    /\ Idle /\ BadJustifyCall(call) /\ exc = "ValueError"
    /\ last_upside_down /\ sess.oriented /\ budget < MaxFail

----
(* Properties of print_chart and print_table *)

\* a print_chart call that has resampled its series
Resampled == stack # <<>> /\ Top.fn = "g_print_chart" /\ Top.pc # "call"
ChartWidth == gfx.width - 2
IsConstant(values) == \A i \in 1..Len(values) : values[i] = values[1]

\* C12: for every series with len(series) >= width = queue width - 2, the resampled
\* sequence of print_chart has exactly width values.
C12_DecimatedLength ==
    (Resampled /\ Len(Top.a[1]) >= ChartWidth) => Len(Top.a[3].vals) = ChartWidth

\* C13: print_chart of a constant series does not raise, and gives every column
\* the same bucket, whether the series is decimated or interpolated.
C13_ConstantSeriesFlat ==
    (call.fn = "g_print_chart" /\ IsConstant(call.a[1])) =>
        /\ exc = "none"
        /\ (stack # <<>> /\ Top.pc \in {"compile", "text", "done"}) =>
              \A k \in 1..Len(Top.a[4]) : Top.a[4][k] = Top.a[4][1]
        /\ Idle => gfx.command_buffer # <<>>

\* C14: for every series with 2 <= len(series) < width, the interpolation gives
\* exactly width values, the first equal to series[0], the last equal to
\* series[len - 1], and each between min(series) and max(series).
C14_InterpolationEnds ==
    (Resampled /\ 2 <= Len(Top.a[1]) /\ Len(Top.a[1]) < ChartWidth) =>
        LET values == Top.a[1]
            vals == Top.a[3].vals
        IN /\ Len(vals) = ChartWidth
           /\ vals[1] = FromInt(values[1])
           /\ vals[ChartWidth] = FromInt(values[Len(values)])
           /\ \A k \in 1..Len(vals) :
                 /\ ~FLess(vals[k], FromInt(Min(Range(values))))
                 /\ ~FLess(FromInt(Max(Range(values))), vals[k])

\* the buffered text of the k-th command
BufferedText(k) == gfx.command_buffer[k].args[1]

\* C15: print_table with padding 0 appends one text command per (key, value)
\* pair, and the line of a pair with len(str(key)) + 2 + len(str(value)) <= width
\* is key, ": " and the value right-aligned, width characters in all.
C15_TableLines ==
    (Idle /\ call.fn = "g_print_table" /\ call.a[2] = 0) =>
        LET data == call.a[1]
        IN /\ exc = "none"
           /\ Len(gfx.command_buffer) = Len(data)
           /\ \A k \in 1..Len(data) :
                 /\ gfx.command_buffer[k].op = "print"
                 /\ LET key == data[k][1]
                        value == StrOf(data[k][2])
                        spaces == gfx.width - Len(key) - 2 - Len(value)
                    IN spaces >= 0 =>
                         /\ BufferedText(k) = key \o ": " \o Rep(" ", spaces) \o value
                         /\ Len(BufferedText(k)) = gfx.width

----
(* Properties of reconnection *)

\* how many invocations of connect() are active
ActiveConnects == Cardinality({i \in 1..Len(stack) : stack[i].fn = "connect"})

\* C16: a failure inside connect() never starts a new connect() while another one
\* is still active, whatever fails (the USB open, the init, or the re-apply of
\* the orientation): at most one invocation of connect() is active at any time.
C16_NoNestedConnect == ActiveConnects <= 1

\* the history of the do_safe call that is about to make an attempt
Attempting == stack # <<>> /\ Top.fn = "do_safe" /\ Top.pc = "try" /\ exc = "none"

\* C17: do_safe makes the next attempt of an operation that failed only after it
\* slept and, unless the operation is connect itself, after an invocation of
\* connect() returned since the failure; a failed connect() is attempted again
\* after a sleep of its own, and every failure is followed by one sleep.
C17_RetryOrder ==
    /\ Attempting =>
          /\ Top.a[3].status # "failed"
          /\ (Top.a[3].status = "slept" /\ Top.a[1] # "connect") =>
                stats.connReturns > Top.a[3].mark
    /\ Idle => stats.sleeps = stats.opFails + stats.connFails

C17_Witness ==
    /\ Attempting /\ Top.a[1] = "text" /\ Top.a[3].status = "slept"
    /\ stats.connFails >= 2 /\ stats.connReturns = 1 /\ ~last_upside_down

----
(* Properties of POSPrinter.print *)

\* the device operations completed in the current call, without the orientation
\* writes that connect() re-applies
OwnOps == SelectSeq(oplog, LAMBDA e : e.op # "_set_upside_down")
OpNames(ops) == [i \in 1..Len(ops) |-> ops[i].op]

PrintCall(sides) == call.fn = "print" /\ call.a[2] \in sides

\* C18: print(text, justify=J) with J left, center or right completes the device
\* operations justify(J), text(text), justify(left) in this order, each once;
\* print(text) without justify completes text(text) only.
C18_PrintOrder ==
    PrintCall(Sides \cup {"None"}) =>
        LET expected == IF call.a[2] = "None" THEN <<"text">>
                        ELSE <<"justify_" \o call.a[2], "text", "justify_left">>
        IN /\ IsPrefix(OpNames(OwnOps), expected)
           /\ Idle => (exc = "none" /\ OpNames(OwnOps) = expected)
           /\ \A i \in 1..Len(OwnOps) :
                 OwnOps[i].op = "text" => OwnOps[i].args = <<call.a[1]>>

C18_Witness ==
    /\ Idle /\ PrintCall({"right"}) /\ exc = "none"
    /\ stats.opFails >= 2 /\ Len(oplog) = 3

\* C19: in print(text, justify=J) with J center or right, the text write that
\* succeeds is made on a session on which J is in effect, whatever fails.
C19_JustifySurvives ==
    PrintCall({"center", "right"}) =>
        \A i \in 1..Len(oplog) : oplog[i].op = "text" => oplog[i].justify = call.a[2]

----
(* Properties of a flush under device failures *)

Op(name, args) == [op |-> name, args |-> args]
Ops(log) == [i \in 1..Len(log) |-> Op(log[i].op, log[i].args)]

\* the device operations one buffered command is made of
CommandOps(c) ==
    CASE c.op = "feed" -> <<Op("lf", c.args)>>
      [] c.op = "cut" -> <<Op("cut", c.args)>>
      [] c.op = "set_text_size" -> <<Op("set_text_size", c.args)>>
      [] c.op = "line" -> <<Op("text", <<Rep(line_char, printer_width)>>)>>
      [] c.op = "justify" -> <<Op("justify_" \o c.args[1], <<>>)>>
      [] c.op = "print" ->
           IF c.args[2] = "None" THEN <<Op("text", <<c.args[1]>>)>>
           ELSE <<Op("justify_" \o c.args[2], <<>>), Op("text", <<c.args[1]>>),
                  Op("justify_left", <<>>)>>

RECURSIVE FlushOps(_)
\* the device operations of the commands of buf, in the order of buf
FlushOps(buf) == IF buf = <<>> THEN <<>> ELSE CommandOps(Head(buf)) \o FlushOps(Tail(buf))

ValidArgs(c) ==
    /\ c.op = "justify" => c.args[1] \in Sides
    /\ c.op = "print" => c.args[2] \in Sides \cup {"None"}

\* a flush by print() is under way or over, of a buffer of valid commands only
Flushing ==
    /\ call.fn = "g_print"
    /\ ~(stack # <<>> /\ stack[1].pc = "call")
    /\ \A i \in 1..Len(gfx.before) : ValidArgs(gfx.before[i])

\* C20: during one flush of a buffer whose commands all have valid arguments,
\* whatever device operations fail, the device operations that completed are the
\* beginning of the operations of the buffered commands in flush order, each once,
\* and all of them when the flush is over, which it is by returning.
C20_ExactlyOnceReplay ==
    Flushing =>
        LET expected == FlushOps(IF gfx.upside_down THEN Reverse(gfx.before)
                                                    ELSE gfx.before)
        IN /\ IsPrefix(Ops(OwnOps), expected)
           /\ Idle => (exc = "none" /\ Ops(OwnOps) = expected)

C20_Witness ==
    /\ Flushing /\ Idle
    /\ Len(gfx.before) >= 3 /\ Len(OwnOps) >= 4
    /\ stats.opFails >= 1
    /\ gfx.upside_down

====
